---- MODULE Spec2Model ----
(***************************************************************************)
(* The research-assistant chat of src/demo.py as a state machine.          *)
(*                                                                         *)
(* One turn of main(): the user submits a prompt, the message history is   *)
(* built from the session transcript, the agent runs (tool calls, result   *)
(* validation with retries), the result is streamed part by part into the  *)
(* assistant placeholder and, last, the user/assistant pair is appended to *)
(* the transcript.  Any exception inside the try block lands in the single *)
(* except clause, which renders an error in the placeholder.               *)
(*                                                                         *)
(* The language model is the environment: which tools it calls, with which *)
(* arguments, and whether its final output validates, are nondeterministic.*)
(***************************************************************************)
EXTENDS Naturals, Sequences, FiniteSets

\* ------------------------------------------------------------------ bounds

\* Successful turns per session (caps the transcript at 2 * MaxTurns entries).
MaxTurns == 2

\* Tool invocations the model may request within one agent run.
MaxToolCalls == 2

\* ----------------------------------------------------------- input domains

\* Prompts typed into st.chat_input (a falsy, empty prompt starts no turn).
Prompts == {"p", "q"}

\* query_number arguments the model may pass to get_search.
QueryNumbers == {0, 1}

\* Field values of a ResearchResult: three plain str fields, no constraint.
Titles == {"", "# T"}
Mains == {"", "M"}
Bullets == {"", "- b"}

\* ------------------------------------------------------- program constants

\* Agent(..., retries=5): retries allowed for result validation.
Retries == 5

\* message_placeholder.markdown("Starting research...")
StartingText == "Starting research..."

\* message_placeholder.error(f"An error occurred: {str(e)}")
ErrorText == "An error occurred"

\* class ResearchResult(BaseModel)
ResearchResult == [research_title : Titles, research_main : Mains, research_bullets : Bullets]

\* The agent's tools.
Tools == {"add_toolkit_information", "get_search"}

VARIABLES
    messages,         \* st.session_state.messages
    pc,               \* position in main(): "idle", "run" (agent running), "render"
    prompt,           \* the prompt of the current (or last) turn
    message_history,  \* the history handed to search_agent.run
    result_retry,     \* the agent's result-validation retry counter
    attempts,         \* final outputs the model has produced in this run
    tool_calls,       \* tool invocations in the running agent run (0 outside a run)
    searches,         \* query_number of each get_search invocation of the run, in order
    result,           \* <<>> or <<result.data>>
    idx,              \* parts of response_parts already streamed
    full_response,    \* the accumulator of the streaming loop
    shown,            \* every text put into message_placeholder this turn
    errors,           \* message_placeholder.error calls this turn
    outcome,          \* "none", "ok" or "failed": how the last turn ended
    raised,           \* what was raised inside the try block this turn, in order:
                      \* a tool's name, "model", "validation" or "render"
    failure,          \* what the except clause caught, "none" if nothing
    before            \* the transcript as it stood when the turn started

vars == <<messages, pc, prompt, message_history, result_retry, attempts, tool_calls,
          searches, result, idx, full_response, shown, errors, outcome, raised, failure,
          before>>

\* ---------------------------------------------------------------- helpers

UserEntry(p) == [role |-> "user", content |-> p]

AssistantEntry(c) == [role |-> "assistant", content |-> c]

RECURSIVE HistoryOf(_)
HistoryOf(msgs) ==
    IF msgs = <<>> THEN <<>>
    ELSE LET msg == Head(msgs)
             rest == HistoryOf(Tail(msgs))
         IN  IF msg.role = "user"
             THEN <<[kind |-> "UserPrompt", content |-> msg.content]>> \o rest
             ELSE IF msg.role = "assistant"
             THEN <<[kind |-> "ModelTextResponse", content |-> msg.content]>> \o rest
             ELSE rest

\* Variant: only the user entries are replayed.
HistoryOfUsersOnly(msgs) ==
    SelectSeq(HistoryOf(msgs), LAMBDA m : m.kind = "UserPrompt")

get_message_history(msgs) == HistoryOf(msgs)

\* Variant: single newlines between the parts.
ResponsePartsSingleNewline(r) ==
    <<r.research_title, "\n", r.research_main, "\n", r.research_bullets>>

response_parts(r) ==
    <<r.research_title, "\n\n", r.research_main, "\n\n", r.research_bullets>>

\* Variant: the append sits inside the loop body.
LoopFinishedInside(i, parts) == i >= 1

\* The for loop over response_parts has run to its end.
LoopFinished(i, parts) == i = Len(parts)

\* Variant: the pair is appended assistant first.
ExtendedAssistantFirst(msgs, p, full) == msgs \o <<AssistantEntry(full), UserEntry(p)>>

\* Variant: only the assistant entry is appended.
ExtendedAssistantOnly(msgs, p, full) == msgs \o <<AssistantEntry(full)>>

\* st.session_state.messages.extend([...])
Extended(msgs, p, full) == msgs \o <<UserEntry(p), AssistantEntry(full)>>

\* Variant: the run gives up when the counter reaches the budget.
RetriesExceededAtBudget(n) == n >= Retries

\* _incr_result_retry: the run gives up once the counter passes the budget.
RetriesExceeded(n) == n > Retries

\* ------------------------------------------------------------------- Init

\* initialize_chat() on a fresh session.
Init ==
    /\ messages = <<>>
    /\ pc = "idle"
    /\ prompt = ""
    /\ message_history = <<>>
    /\ result_retry = 0
    /\ attempts = 0
    /\ tool_calls = 0
    /\ searches = <<>>
    /\ result = <<>>
    /\ idx = 0
    /\ full_response = ""
    /\ shown = <<>>
    /\ errors = 0
    /\ outcome = "none"
    /\ raised = <<>>
    /\ failure = "none"
    /\ before = <<>>

\* ---------------------------------------------------------------- actions

\* Variant: the user entry is appended before the run, so a failed turn keeps it.
FailKeepsUserEntry(cause) ==
    /\ pc' = "idle"
    /\ outcome' = "failed"
    /\ failure' = cause
    /\ shown' = Append(shown, ErrorText)
    /\ errors' = errors + 1
    /\ tool_calls' = 0
    /\ searches' = <<>>
    /\ messages' = Append(messages, UserEntry(prompt))
    /\ UNCHANGED <<prompt, message_history, result, idx, full_response, before>>

\* The except clause: the error replaces the placeholder's content and the
\* script run ends; nothing is appended.
Fail(cause) ==
    /\ pc' = "idle"
    /\ outcome' = "failed"
    /\ failure' = cause
    /\ shown' = Append(shown, ErrorText)
    /\ errors' = errors + 1
    /\ tool_calls' = 0
    /\ searches' = <<>>
    /\ UNCHANGED <<messages, prompt, message_history, result, idx, full_response, before>>

\* A prompt is submitted: the placeholder shows the status text, the history
\* is built and the agent run starts.
Submit(p) ==
    /\ pc = "idle"
    /\ Len(messages) < 2 * MaxTurns
    /\ pc' = "run"
    /\ prompt' = p
    /\ before' = messages
    /\ message_history' = get_message_history(messages)
    /\ shown' = <<StartingText>>
    /\ errors' = 0
    /\ result_retry' = 0
    /\ attempts' = 0
    /\ tool_calls' = 0
    /\ searches' = <<>>
    /\ result' = <<>>
    /\ idx' = 0
    /\ full_response' = ""
    /\ outcome' = "none"
    /\ raised' = <<>>
    /\ failure' = "none"
    /\ UNCHANGED messages

\* The model calls add_toolkit_information and the lookup returns.
CallToolkit ==
    /\ pc = "run"
    /\ tool_calls < MaxToolCalls
    /\ tool_calls' = tool_calls + 1
    /\ UNCHANGED <<messages, pc, prompt, message_history, result_retry, attempts,
                   searches, result, idx, full_response, shown, errors, outcome,
                   raised, failure, before>>

\* The model calls get_search(query, query_number) and the search returns.
CallSearch(n) ==
    /\ pc = "run"
    /\ tool_calls < MaxToolCalls
    /\ tool_calls' = tool_calls + 1
    /\ searches' = Append(searches, n)
    /\ UNCHANGED <<messages, pc, prompt, message_history, result_retry, attempts,
                   result, idx, full_response, shown, errors, outcome, raised, failure,
                   before>>

\* Variant: a tool's exception is turned into a retry and the run goes on.
ToolRaisesSwallowed(tool) ==
    /\ pc = "run"
    /\ tool_calls < MaxToolCalls
    /\ raised' = Append(raised, tool)
    /\ tool_calls' = tool_calls + 1
    /\ result_retry' = result_retry + 1
    /\ UNCHANGED <<messages, pc, prompt, message_history, attempts, searches, result, idx,
                   full_response, shown, errors, outcome, failure, before>>

\* A tool raises (empty corpus, network or credential error): neither tool
\* catches anything, the exception leaves the run and reaches the except clause.
ToolRaises(tool) ==
    /\ pc = "run"
    /\ tool_calls < MaxToolCalls
    /\ raised' = Append(raised, tool)
    /\ Fail(tool)
    /\ UNCHANGED <<result_retry, attempts>>

\* The model request itself raises (provider error).
ModelRaises ==
    /\ pc = "run"
    /\ raised' = Append(raised, "model")
    /\ Fail("model")
    /\ UNCHANGED <<result_retry, attempts>>

\* The model's final output fails validation against ResearchResult: the
\* retry counter goes up and, unless the budget is passed, the model is asked again.
ModelInvalid ==
    /\ pc = "run"
    /\ result_retry' = result_retry + 1
    /\ attempts' = attempts + 1
    /\ IF RetriesExceeded(result_retry')
       THEN /\ raised' = Append(raised, "validation")
            /\ Fail("validation")
       ELSE UNCHANGED <<messages, pc, prompt, message_history, tool_calls, searches, result,
                        idx, full_response, shown, errors, outcome, raised, failure, before>>

\* The model's final output validates: search_agent.run returns it.
ModelValid(r) ==
    /\ pc = "run"
    /\ attempts' = attempts + 1
    /\ result' = <<r>>
    /\ pc' = "render"
    /\ tool_calls' = 0
    /\ searches' = <<>>
    /\ UNCHANGED <<messages, prompt, message_history, result_retry, idx, full_response,
                   shown, errors, outcome, raised, failure, before>>

\* One iteration of the streaming loop.
RenderPart ==
    /\ pc = "render"
    /\ idx < Len(response_parts(result[1]))
    /\ full_response' = full_response \o response_parts(result[1])[idx + 1]
    /\ shown' = Append(shown, full_response')
    /\ idx' = idx + 1
    /\ UNCHANGED <<messages, pc, prompt, message_history, result_retry, attempts,
                   tool_calls, searches, result, errors, outcome, raised, failure, before>>

\* Rendering raises inside the try block.
RenderRaises ==
    /\ pc = "render"
    /\ idx < Len(response_parts(result[1]))
    /\ raised' = Append(raised, "render")
    /\ Fail("render")
    /\ UNCHANGED <<result_retry, attempts>>

\* After the loop: the pair is appended and the turn ends.
Extend ==
    /\ pc = "render"
    /\ LoopFinished(idx, response_parts(result[1]))
    /\ messages' = Extended(messages, prompt, full_response)
    /\ pc' = "idle"
    /\ outcome' = "ok"
    /\ UNCHANGED <<prompt, message_history, result_retry, attempts, tool_calls,
                   searches, result, idx, full_response, shown, errors, raised, failure,
                   before>>

Next ==
    \/ \E p \in Prompts : Submit(p)
    \/ CallToolkit
    \/ \E n \in QueryNumbers : CallSearch(n)
    \/ \E tool \in Tools : ToolRaises(tool)
    \/ ModelRaises
    \/ ModelInvalid
    \/ \E r \in ResearchResult : ModelValid(r)
    \/ RenderPart
    \/ RenderRaises
    \/ Extend

Spec == Init /\ [][Next]_vars

\* ----------------------------------------------------------------- claims

IsPrefix(a, b) == Len(a) <= Len(b) /\ SubSeq(b, 1, Len(a)) = a

TurnSucceeded == pc = "idle" /\ outcome = "ok"

TurnFailed == pc = "idle" /\ outcome = "failed"

AllEmpty(r) == r.research_title = "" /\ r.research_main = "" /\ r.research_bullets = ""

\* C1: whenever anything raised inside the try block of a turn, the turn has
\* ended, the transcript is what it was before the turn (no user entry, no
\* assistant entry appended) and one error message is what the placeholder shows.
C1_FailedTurnLeavesTranscript ==
    (raised # <<>> \/ outcome = "failed") =>
        /\ TurnFailed
        /\ messages = before
        /\ errors = 1
        /\ shown[Len(shown)] = ErrorText
        /\ failure = raised[Len(raised)]

\* A follow-up turn failed while rendering, with one pair already stored.
C1_Witness == TurnFailed /\ failure = "render" /\ Len(before) = 2

C3_NeverAllEmpty ==
    (result # <<>> /\ TurnSucceeded) => ~AllEmpty(result[1])

\* C4: a successful turn leaves the transcript equal to the transcript before
\* the turn followed by the user entry with the submitted prompt and then one
\* assistant entry.
C4_PairAppended ==
    TurnSucceeded =>
        /\ Len(messages) = Len(before) + 2
        /\ SubSeq(messages, 1, Len(before)) = before
        /\ messages[Len(before) + 1] = UserEntry(prompt)
        /\ messages[Len(before) + 2].role = "assistant"

\* A successful follow-up turn.
C4_Witness == TurnSucceeded /\ Len(before) = 2 /\ Len(messages) = 4

\* C5: the history handed to the agent is the transcript as it stood when the
\* turn started, entry by entry: same length and order, user entries as user
\* prompts, assistant entries as model responses, contents identical; the
\* current prompt is not in it.
C5_HistoryIsTranscript ==
    /\ Len(message_history) = Len(before)
    /\ \A i \in 1..Len(before) :
          /\ message_history[i].content = before[i].content
          /\ (before[i].role = "user" => message_history[i].kind = "UserPrompt")
          /\ (before[i].role = "assistant" => message_history[i].kind = "ModelTextResponse")
    /\ (pc # "idle" => before = messages)

\* The agent runs a follow-up turn with one prior pair as history.
C5_Witness == pc = "run" /\ Len(message_history) = 2 /\ messages # <<>>

C7_DistinctSequenceNumbers ==
    \A i, j \in 1..Len(searches) : i # j => searches[i] # searches[j]

\* C8: a step in which a tool raises ends the run in failure at once: the
\* run is over (no further tool call, no retry), the retry counter and the
\* attempt count are untouched, one error message is shown, there is no result
\* and the transcript is unchanged.
C8_ToolErrorsPropagate ==
    [][ (raised' # raised /\ raised' # <<>> /\ raised'[Len(raised')] \in Tools) =>
            /\ pc' = "idle"
            /\ outcome' = "failed"
            /\ failure' \in Tools
            /\ result_retry' = result_retry
            /\ attempts' = attempts
            /\ errors' = 1
            /\ result' = <<>>
            /\ messages' = before' ]_vars

\* A tool raised after the model had already used part of its retry budget.
C8_Witness == TurnFailed /\ failure \in Tools /\ result_retry = 2 /\ Len(raised) = 1

\* C9: the transcript always has even length and its roles alternate user,
\* assistant, user, assistant, ... starting with user.
C9_RolesAlternate ==
    /\ Len(messages) % 2 = 0
    /\ \A i \in 1..Len(messages) :
          messages[i].role = (IF i % 2 = 1 THEN "user" ELSE "assistant")

\* A stored pair and a failed turn after it.
C9_Witness == Len(messages) = 2 /\ TurnFailed /\ messages[2].role = "assistant"

\* C10: the transcript is not modified while a turn is in progress; after a
\* successful turn the stored assistant content is the final text displayed,
\* title + "\n\n" + body + "\n\n" + bullets, and all five parts were rendered
\* before the append.
C10_StoredIsDisplayed ==
    /\ (pc # "idle" => messages = before)
    /\ (TurnSucceeded =>
            /\ idx = 5
            /\ messages[Len(messages)].content = shown[Len(shown)]
            /\ messages[Len(messages)].content =
                   result[1].research_title \o "\n\n" \o result[1].research_main
                       \o "\n\n" \o result[1].research_bullets)

\* A successful turn with a non-empty body has been stored.
C10_Witness ==
    /\ TurnSucceeded
    /\ result[1].research_main = "M"
    /\ messages[Len(messages)].content = full_response

====
